---- MODULE Spec2Model ----
(***************************************************************************)
(* BigMath (src/src/index.ts): arbitrary-precision decimal operators built *)
(* on big.js.  Operands and results are decimal texts, modelled as         *)
(* sequences of one-character strings; a Big number is the big.js triple   *)
(* (s, e, c): sign, exponent of the first digit, digits without trailing   *)
(* zeros.  The precision context (Big.DP, Big.RM, Big.PE, Big.NE) is       *)
(* global mutable state.                                                   *)
(***************************************************************************)
EXTENDS Integers, Sequences, FiniteSets, TLC

VARIABLES BigDP, BigRM, BigPE, BigNE, pc, call, x, xPrev, currentDP, out

vars == <<BigDP, BigRM, BigPE, BigNE, pc, call, x, xPrev, currentDP, out>>

(***************************************************************************)
(* Bounds of the model.                                                    *)
(***************************************************************************)
MaxTextLen == 2
MaxLen == 2
MaxCtxLen == 1
MaxDP == 2
MaxSqrtDP == 1
MaxExp == 2
MaxFact == 4

(***************************************************************************)
(* Program constants.                                                      *)
(***************************************************************************)
ConfigDP == 1000
ConfigRM == 1
ConfigPE == 1000000
ConfigNE == -1000000
GuardDigits == 5

(***************************************************************************)
(* Texts.                                                                  *)
(***************************************************************************)
DigitChars == <<"0", "1", "2", "3", "4", "5", "6", "7", "8", "9">>
Digits == {DigitChars[i] : i \in 1..10}
DigitOf(ch) == (CHOOSE i \in 1..10 : DigitChars[i] = ch) - 1
CharOf(d) == DigitChars[d + 1]

NumChars == {"0", "1", "2", "3", ".", "-"}
Chars == NumChars \cup {"x"}
TextsOver(A, n) == UNION {[1..k -> A] : k \in 0..n}

Max(a, b) == IF a >= b THEN a ELSE b
Min(a, b) == IF a <= b THEN a ELSE b
AbsInt(n) == IF n < 0 THEN -n ELSE n
\* const v = w: the value is computed once, and K is what follows, of v.
Bind(w, K(_)) == CHOOSE r \in {K(v) : v \in {w}} : TRUE

\* JS indexOf, 1-based; 0 when absent.
IndexOf(t, ch) ==
  IF \E i \in 1..Len(t) : t[i] = ch
  THEN CHOOSE i \in 1..Len(t) : t[i] = ch /\ \A j \in 1..(i - 1) : t[j] # ch
  ELSE 0
Includes(t, ch) == IndexOf(t, ch) # 0
\* JS substring(from) / substring(0, to), 0-based arguments.
SubstringFrom(t, from) == SubSeq(t, from + 1, Len(t))
SubstringTo(t, to) == SubSeq(t, 1, to)
StartsWith(t, ch) == Len(t) > 0 /\ t[1] = ch

RECURSIVE Pow10(_)
Pow10(n) == IF n <= 0 THEN 1 ELSE 10 * Pow10(n - 1)

RECURSIVE NatDigits(_)
NatDigits(n) == IF n < 10 THEN <<n>> ELSE Append(NatDigits(n \div 10), n % 10)

RECURSIVE DigitsNat(_)
DigitsNat(c) ==
  IF Len(c) = 0 THEN 0 ELSE 10 * DigitsNat(SubSeq(c, 1, Len(c) - 1)) + c[Len(c)]

DigitsText(c) == [i \in 1..Len(c) |-> CharOf(c[i])]
Zeros(n) == [i \in 1..Max(n, 0) |-> 0]
\* String(n) of a JS integer.
IntText(n) == IF n < 0 THEN <<"-">> \o DigitsText(NatDigits(-n)) ELSE DigitsText(NatDigits(n))

(***************************************************************************)
(* big.js numbers.                                                         *)
(***************************************************************************)
MkBig(s, e, c) == [err |-> "", s |-> s, e |-> e, c |-> c]
Thrown(msg) == [err |-> msg, s |-> 0, e |-> 0, c |-> <<>>]
IsThrown(b) == b.err # ""
BigZero == MkBig(1, 0, <<0>>)
BigOne == MkBig(1, 0, <<1>>)
IsZero(b) == b.c[1] = 0

INVALID_NUMBER == "[big.js] Invalid number"
INVALID_DP == "[big.js] Invalid decimal places"
DIV_BY_ZERO == "[big.js] Division by zero"

LastNonZero(c) ==
  IF \E i \in 1..Len(c) : c[i] # 0
  THEN CHOOSE i \in 1..Len(c) : c[i] # 0 /\ \A j \in (i + 1)..Len(c) : c[j] = 0
  ELSE 0
FirstNonZero(c) ==
  IF \E i \in 1..Len(c) : c[i] # 0
  THEN CHOOSE i \in 1..Len(c) : c[i] # 0 /\ \A j \in 1..(i - 1) : c[j] = 0
  ELSE 0
StripTrailing(c) == SubSeq(c, 1, Max(LastNonZero(c), 1))

\* NUMERIC = /^-?(\d+(\.\d*)?|\.\d+)$/ (the texts of the model hold no exponent part).
IsNumeric(t) ==
  LET u == IF StartsWith(t, "-") THEN Tail(t) ELSE t
      dot == IndexOf(u, ".")
  IN /\ Len(u) >= 1
     /\ \A i \in 1..Len(u) : u[i] \in Digits \/ (u[i] = "." /\ i = dot)
     /\ dot = 1 => Len(u) >= 2

\* new Big(text): the sign, the digits between the leading and the trailing
\* zeros, and the exponent of the first of them.
Parse(t) ==
  IF ~IsNumeric(t) THEN Thrown(INVALID_NUMBER)
  ELSE
    Bind(IF t[1] = "-" THEN Tail(t) ELSE t, LAMBDA n0 :
    Bind(IndexOf(n0, "."), LAMBDA dot :
    Bind([i \in 1..(Len(n0) - (IF dot = 0 THEN 0 ELSE 1)) |->
            DigitOf(n0[IF dot = 0 \/ i < dot THEN i ELSE i + 1])], LAMBDA ds :
    Bind(FirstNonZero(ds), LAMBDA i0 :
      IF i0 = 0 THEN MkBig(IF t[1] = "-" THEN -1 ELSE 1, 0, <<0>>)
      ELSE MkBig(IF t[1] = "-" THEN -1 ELSE 1,
                 (IF dot = 0 THEN Len(ds) ELSE dot - 1) - (i0 - 1) - 1,
                 SubSeq(ds, i0, LastNonZero(ds)))))))

\* ++ on the last digit with carry: <<carried out of the first digit, digits>>.
RoundUpDigits(c) ==
  Bind(IF \E i \in 1..Len(c) : c[i] # 9
       THEN CHOOSE i \in 1..Len(c) : c[i] # 9 /\ \A k \in (i + 1)..Len(c) : c[k] = 9
       ELSE 0, LAMBDA j :
    IF j = 0 THEN <<TRUE, <<1>> \o Zeros(Len(c))>>
    ELSE <<FALSE, [i \in 1..Len(c) |-> IF i < j THEN c[i] ELSE IF i = j THEN c[i] + 1 ELSE 0]>>)

\* The digit after the last one kept decides by the rounding mode whether
\* the kept digits are incremented (rm: 0 down, 1 half up, 2 half even, 3 up);
\* xc[i] of big.js is xc[i + 1] here, and a digit beyond the end is undefined.
RoundsUpNever(xc, sd, rm, more) == FALSE
RoundsUp(xc, sd, rm, more) ==
  LET at(i) == IF i + 1 <= Len(xc) THEN xc[i + 1] ELSE -1
  IN IF sd < 1 THEN
       \/ rm = 3 /\ (more \/ xc[1] # 0)
       \/ sd = 0 /\ \/ rm = 1 /\ xc[1] >= 5
                    \/ rm = 2 /\ (xc[1] > 5 \/ (xc[1] = 5 /\ (more \/ at(1) # -1)))
     ELSE
       \/ rm = 1 /\ at(sd) >= 5
       \/ rm = 2 /\ (at(sd) > 5 \/ (at(sd) = 5 /\
              (more \/ at(sd + 1) # -1 \/ at(sd - 1) % 2 = 1)))
       \/ rm = 3 /\ (more \/ xc[1] # 0)

\* round(x, sd, rm, more) of big.js: x rounded to sd significant digits.
Round(b, sd, rm, more) ==
  IF sd < 1 THEN
    IF RoundsUp(b.c, sd, rm, more) THEN MkBig(b.s, b.e - sd + 1, <<1>>)
    ELSE MkBig(b.s, 0, <<0>>)
  ELSE IF sd < Len(b.c) THEN
    IF RoundsUp(b.c, sd, rm, more)
    THEN Bind(RoundUpDigits(SubSeq(b.c, 1, sd)), LAMBDA r :
           IF r[1] THEN MkBig(b.s, b.e + 1, <<1>>)
           ELSE MkBig(b.s, b.e, StripTrailing(r[2])))
    ELSE MkBig(b.s, b.e, StripTrailing(SubSeq(b.c, 1, sd)))
  ELSE b

\* stringify(x, doExponential, isNonzero) of big.js.
Stringify(b, doExponential, isNonzero) ==
  LET e == b.e
      ds == DigitsText(b.c)
      n == Len(b.c)
      s == IF doExponential THEN
             <<ds[1]>> \o (IF n > 1 THEN <<".">> \o Tail(ds) ELSE <<>>)
               \o (IF e < 0 THEN <<"e">> ELSE <<"e", "+">>) \o IntText(e)
           ELSE IF e < 0 THEN <<"0", ".">> \o DigitsText(Zeros(-e - 1)) \o ds
           ELSE IF e > 0 THEN
             IF e + 1 > n THEN ds \o DigitsText(Zeros(e + 1 - n))
             ELSE IF e + 1 < n THEN SubSeq(ds, 1, e + 1) \o <<".">> \o SubSeq(ds, e + 2, n)
             ELSE ds
           ELSE IF n > 1 THEN <<ds[1], ".">> \o Tail(ds)
           ELSE ds
  IN IF b.s < 0 /\ isNonzero THEN <<"-">> \o s ELSE s

\* x.toString(): exponential notation at and beyond the exponent limits.
BigToString(b, pe, ne) == Stringify(b, b.e <= ne \/ b.e >= pe, b.c[1] # 0)

\* x.toFixed(dp): rounded by Big.RM to dp decimal places, zero-padded; the
\* sign is shown when x itself is not zero.
ToFixedDp(b, dp, rm) ==
  IF dp < 0 THEN [err |-> INVALID_DP, txt |-> <<>>]
  ELSE Bind(Round(b, dp + b.e + 1, rm, FALSE), LAMBDA r :
       Bind(MkBig(r.s, r.e, r.c \o Zeros(dp + r.e + 1 - Len(r.c))), LAMBDA padded :
         [err |-> "", txt |-> Stringify(padded, FALSE, b.c[1] # 0)]))
\* x.toFixed(): plain notation, no rounding.
ToFixed(b) == Stringify(b, FALSE, b.c[1] # 0)

\* The integer of the digits and the power of ten of the last digit:
\* value = s * Coef * 10^LowExp.
Coef(b) == DigitsNat(b.c)
LowExp(b) == b.e - Len(b.c) + 1
FromScaled(s, n, q) ==
  IF n = 0 THEN MkBig(1, 0, <<0>>)
  ELSE Bind(NatDigits(n), LAMBDA ds : MkBig(s, Len(ds) - 1 + q, StripTrailing(ds)))
Signed(b, q) == b.s * Coef(b) * Pow10(LowExp(b) - q)

Plus(a, b) ==
  Bind(Min(LowExp(a), LowExp(b)), LAMBDA q :
  Bind(Signed(a, q) + Signed(b, q), LAMBDA n :
    FromScaled(IF n < 0 THEN -1 ELSE 1, AbsInt(n), q)))
Negate(b) == MkBig(-b.s, b.e, b.c)
Minus(a, b) == Plus(a, Negate(b))
Times(a, b) == FromScaled(a.s * b.s, Coef(a) * Coef(b), LowExp(a) + LowExp(b))
Abs(b) == MkBig(1, b.e, b.c)
Cmp(a, b) ==
  Bind(Min(LowExp(a), LowExp(b)), LAMBDA q :
  Bind(Signed(a, q) - Signed(b, q), LAMBDA d :
    IF d < 0 THEN -1 ELSE IF d > 0 THEN 1 ELSE 0))
Lt(a, b) == Cmp(a, b) < 0
Gt(a, b) == Cmp(a, b) > 0
Eq(a, b) == Cmp(a, b) = 0

\* One step of long division, <<digit, remainder>> of (10 * rem) / den for
\* rem < den, computed by doubling so that no intermediate exceeds den.
AddMod(a, b, den) == IF a >= den - b THEN <<1, a - (den - b)>> ELSE <<0, a + b>>
DivStep(rem, den) ==
  IF rem <= 200000000 THEN <<(10 * rem) \div den, (10 * rem) % den>>
  ELSE Bind(AddMod(rem, rem, den), LAMBDA r2 :
       Bind(AddMod(r2[2], r2[2], den), LAMBDA r4 :
       Bind(AddMod(r4[2], rem, den), LAMBDA r5 :
       Bind(AddMod(r5[2], r5[2], den), LAMBDA r10 :
         <<2 * (2 * (2 * r2[1] + r4[1]) + r5[1]) + r10[1], r10[2]>>))))

RECURSIVE LongDiv(_, _, _, _)
\* Up to n further quotient digits after st.ds, until no remainder is left.
\* The digits are developed in runs of size digits, each run in runs of a
\* tenth of that; a run of size 0 is one step.
LongDiv(st0, den, n, size) ==
  Bind(st0, LAMBDA st :
    IF st.rem = 0 \/ n <= 0 THEN st
    ELSE IF size = 0
    THEN Bind(DivStep(st.rem, den), LAMBDA qr :
           [ds |-> Append(st.ds, qr[1]), rem |-> qr[2]])
    ELSE LongDiv(LongDiv(st, den, Min(n, size), size \div 10), den, n - size, size))

\* The quotient digits found (all), the power of ten of the last of them
\* (low) and whether a remainder is left (more), rounded to dp places.
DivRound(k, all, low, more, dp, rm) ==
  Bind(FirstNonZero(all), LAMBDA i0 :
    IF i0 = 0 THEN Round(MkBig(k, -(dp + 2), <<0>>), -1, rm, TRUE)
    ELSE Bind(SubSeq(all, i0, Len(all)), LAMBDA sig :
         Bind(MkBig(k, Len(sig) - 1 + low, IF more THEN sig ELSE StripTrailing(sig)),
              LAMBDA q : Round(q, dp + q.e + 1, rm, more))))

\* x.div(y): the quotient rounded by Big.RM to Big.DP decimal places.  As in
\* big.js the quotient is developed digit by digit until nothing is left of
\* the dividend or one digit beyond Big.DP decimal places is reached, and is
\* then handed to round, with the "more" flag set when a remainder is left.
Div(a, b, dp, rm) ==
  IF dp < 0 THEN Thrown(INVALID_DP)
  ELSE IF IsZero(b) THEN Thrown(DIV_BY_ZERO)
  ELSE IF IsZero(a) THEN MkBig(IF a.s = b.s THEN 1 ELSE -1, 0, <<0>>)
  ELSE
    Bind(Coef(a), LAMBDA A :
    Bind(Coef(b), LAMBDA B :
    Bind(LowExp(a) - LowExp(b), LAMBDA g :
    Bind(NatDigits(A \div B), LAMBDA int :
      IF g + dp + 1 >= 0
      THEN Bind(LongDiv([ds |-> int, rem |-> A % B], B, g + dp + 1, 100), LAMBDA ld :
             DivRound(IF a.s = b.s THEN 1 ELSE -1, ld.ds,
                      g - (Len(ld.ds) - Len(int)), ld.rem # 0, dp, rm))
      ELSE Bind(Pow10(-(g + dp + 1)), LAMBDA p :
           Bind(NatDigits((A \div B) \div p), LAMBDA all :
             DivRound(IF a.s = b.s THEN 1 ELSE -1, all,
                      -(dp + 1), A % B # 0 \/ (A \div B) % p # 0, dp, rm)))))))

\* x.mod(y): x - trunc(x / y) * y, the sign of the dividend.
Mod(a, b) ==
  IF IsZero(b) THEN Thrown(DIV_BY_ZERO)
  ELSE IF Gt(Abs(b), Abs(a)) THEN a
  ELSE Bind(Div(a, b, 0, 0), LAMBDA q :
       Bind(Times(q, b), LAMBDA qb : Minus(a, qb)))

RECURSIVE PowLoop(_, _, _)
PowLoop(b0, y, n) ==
  Bind(b0, LAMBDA b :
  Bind(IF n % 2 = 1 THEN Times(y, b) ELSE y, LAMBDA y1 :
    IF n \div 2 = 0 THEN y1 ELSE PowLoop(Times(b, b), y1, n \div 2)))
\* x.pow(n) for n >= 0: repeated squaring, exact.
PowBig(b, n) == PowLoop(b, BigOne, n)

(***************************************************************************)
(* BigMath.  Each operator is given the precision context c it is called   *)
(* in and yields the outcome (a result text, or the chain of messages of   *)
(* the error thrown) and the context it leaves behind.                     *)
(***************************************************************************)
Ret(o, c) == [out |-> o, ctx |-> c]
Ok(text) == [err |-> <<>>, val |-> text]
\* new Error(`${prefix}: ${error.message}`), the message kept in its parts.
Fail(prefix, cause) == [err |-> <<prefix>> \o cause, val |-> <<>>]

ConfigureDropsRM(c) == [DP |-> ConfigDP, RM |-> c.RM, PE |-> ConfigPE, NE |-> ConfigNE]
Configure(c) == [DP |-> ConfigDP, RM |-> ConfigRM, PE |-> ConfigPE, NE |-> ConfigNE]

\* result.toString().includes('.') ? result.toString() : result.toFixed()
Format(b, c) ==
  Bind(BigToString(b, c.PE, c.NE), LAMBDA text :
    IF Includes(text, ".") THEN text ELSE ToFixed(b))

\* add, subtract, multiply: configure, parse both operands, apply, format.
Binary(prefix, a, b, c, F(_, _)) ==
  Bind(Configure(c), LAMBDA c1 :
  Bind(Parse(a), LAMBDA bigA :
    IF IsThrown(bigA) THEN Ret(Fail(prefix, <<bigA.err>>), c1)
    ELSE
  Bind(Parse(b), LAMBDA bigB :
    IF IsThrown(bigB) THEN Ret(Fail(prefix, <<bigB.err>>), c1)
    ELSE Bind(F(bigA, bigB), LAMBDA result : Ret(Ok(Format(result, c1)), c1)))))

add(a, b, c) == Binary("Addition error", a, b, c, Plus)
subtract(a, b, c) == Binary("Subtraction error", a, b, c, Minus)
multiply(a, b, c) == Binary("Multiplication error", a, b, c, Times)

divide(a, b, decimalPlaces, c) ==
  IF b = <<"0">> THEN Ret(Fail("Division error", <<"Division by zero">>), c)
  ELSE
  Bind(Configure(c), LAMBDA c1 :
  Bind(Parse(a), LAMBDA bigA :
    IF IsThrown(bigA) THEN Ret(Fail("Division error", <<bigA.err>>), c1)
    ELSE
  Bind(Parse(b), LAMBDA bigB :
    IF IsThrown(bigB) THEN Ret(Fail("Division error", <<bigB.err>>), c1)
    ELSE
  Bind([c1 EXCEPT !.DP = decimalPlaces], LAMBDA c2 :
  Bind(Div(bigA, bigB, c2.DP, c2.RM), LAMBDA result :
    IF IsThrown(result) THEN Ret(Fail("Division error", <<result.err>>), c2)
    ELSE
  Bind(ToFixedDp(result, decimalPlaces, c2.RM), LAMBDA formattedResult :
    IF formattedResult.err # ""
    THEN Ret(Fail("Division error", <<formattedResult.err>>), c2)
    ELSE Ret(Ok(formattedResult.txt), [c2 EXCEPT !.DP = c1.DP])))))))

\* new Big(1).div(p): the reciprocal at the precision of the context.
PowReciprocalAtZeroDP(p, c) == Div(BigOne, p, 0, c.RM)
PowReciprocal(p, c) == Div(BigOne, p, c.DP, c.RM)

\* The exponent is an integer in the model.
pow(base, exponent, c) ==
  Bind(Configure(c), LAMBDA c1 :
  Bind(Parse(base), LAMBDA bigBase :
    IF IsThrown(bigBase) THEN Ret(Fail("Power error", <<bigBase.err>>), c1)
    ELSE IF exponent = 0 THEN Ret(Ok(<<"1">>), c1)
    ELSE IF exponent < 0 THEN
      Bind(PowBig(bigBase, -exponent), LAMBDA p :
      Bind(PowReciprocal(p, c1), LAMBDA r :
        IF IsThrown(r) THEN Ret(Fail("Power error", <<r.err>>), c1)
        ELSE Ret(Ok(ToFixed(r)), c1)))
    ELSE Bind(PowBig(bigBase, exponent), LAMBDA result :
           Ret(Ok(Format(result, c1)), c1))))

Big10 == MkBig(1, 1, <<1>>)
Big2 == MkBig(1, 0, <<2>>)

\* new Big(10).pow(-decimalPlaces): for a negative power big.js divides one
\* by the positive power, at the precision of the context.
SqrtThreshold(decimalPlaces, c) ==
  IF decimalPlaces > 0
  THEN Bind(PowBig(Big10, decimalPlaces), LAMBDA y : Div(BigOne, y, c.DP, c.RM))
  ELSE PowBig(Big10, -decimalPlaces)

\* The loop condition: x.minus(xPrev).abs().gt(threshold).
SqrtContinuesAlways(x1, xPrev1, decimalPlaces, c) == TRUE
SqrtContinuesNever(x1, xPrev1, decimalPlaces, c) == FALSE
SqrtContinues(x1, xPrev1, decimalPlaces, c) ==
  Bind(Minus(x1, xPrev1), LAMBDA step :
  Bind(SqrtThreshold(decimalPlaces, c), LAMBDA threshold :
    Gt(Abs(step), threshold)))

\* The loop body: x.plus(new Big(value).div(x)).div(2).
SqrtNext(bigValue, x1, c) ==
  Bind(Div(bigValue, x1, c.DP, c.RM), LAMBDA q :
    IF IsThrown(q) THEN q
    ELSE Bind(Plus(x1, q), LAMBDA sum : Div(sum, Big2, c.DP, c.RM)))

\* sqrt up to the loop: <<how the call goes on, outcome, context>>.
SqrtEnter(value, decimalPlaces, c) ==
  Bind(Parse(value), LAMBDA bigValue :
    IF IsThrown(bigValue)
    THEN [to |-> "done", ret |-> Ret(Fail("Square root error", <<bigValue.err>>), c)]
    ELSE IF Lt(bigValue, BigZero)
    THEN [to |-> "done",
          ret |-> Ret(Fail("Square root error",
                           <<"Cannot calculate square root of negative number">>), c)]
    ELSE IF Eq(bigValue, BigZero) THEN [to |-> "done", ret |-> Ret(Ok(<<"0">>), c)]
    ELSE Bind(Configure(c), LAMBDA c1 :
           [to |-> "loop",
            ret |-> Ret(Ok(<<>>), [c1 EXCEPT !.DP = decimalPlaces + GuardDigits])]))

\* sqrt after the loop: format, restore, return.
SqrtLeave(x1, decimalPlaces, savedDP, c) ==
  Bind(ToFixedDp(x1, decimalPlaces, c.RM), LAMBDA formattedResult :
    IF formattedResult.err # ""
    THEN Ret(Fail("Square root error", <<formattedResult.err>>), c)
    ELSE Ret(Ok(formattedResult.txt), [c EXCEPT !.DP = savedDP]))

RECURSIVE SqrtLoop(_, _, _, _, _, _)
SqrtLoop(bigValue, x1, xPrev1, decimalPlaces, savedDP, c) ==
  IF SqrtContinues(x1, xPrev1, decimalPlaces, c)
  THEN Bind(SqrtNext(bigValue, x1, c), LAMBDA x2 :
         IF IsThrown(x2) THEN Ret(Fail("Square root error", <<x2.err>>), c)
         ELSE SqrtLoop(bigValue, x2, x1, decimalPlaces, savedDP, c))
  ELSE SqrtLeave(x1, decimalPlaces, savedDP, c)

sqrt(value, decimalPlaces, c) ==
  Bind(SqrtEnter(value, decimalPlaces, c), LAMBDA en :
    IF en.to = "done" THEN en.ret
    ELSE Bind(Parse(value), LAMBDA bigValue :
         Bind(en.ret.ctx, LAMBDA c2 :
           SqrtLoop(bigValue, bigValue, BigZero, decimalPlaces, Configure(c).DP, c2))))

RECURSIVE FactLoop(_, _, _)
FactLoop(result0, i, n) ==
  Bind(result0, LAMBDA result :
    IF i <= n THEN Bind(FromScaled(1, i, 0), LAMBDA bigI : FactLoop(Times(result, bigI), i + 1, n))
    ELSE result)

\* n is an integer in the model.
factorial(n, c) ==
  IF n < 0
  THEN Ret(Fail("Factorial error",
                <<"Factorial is defined only for non-negative integers">>), c)
  ELSE IF n = 0 \/ n = 1 THEN Ret(Ok(<<"1">>), Configure(c))
  ELSE Bind(Configure(c), LAMBDA c1 :
       Bind(FactLoop(BigOne, 2, n), LAMBDA result : Ret(Ok(Format(result, c1)), c1)))

\* The sign dropped, the text cut at the decimal point.
Normalize(t) ==
  Bind(IF StartsWith(t, "-") THEN SubstringFrom(t, 1) ELSE t, LAMBDA u :
    IF Includes(u, ".") THEN SubstringTo(u, IndexOf(u, ".") - 1) ELSE u)

RECURSIVE GcdLoop(_, _)
\* while (strB !== '0') { remainder = Big(strA).mod(Big(strB)).toFixed(); ... }
GcdLoop(strA, strB) ==
  IF strB = <<"0">> THEN Ok(strA)
  ELSE
  Bind(Parse(strA), LAMBDA bigA :
    IF IsThrown(bigA) THEN Fail("GCD error", <<bigA.err>>)
    ELSE
  Bind(Parse(strB), LAMBDA bigB :
    IF IsThrown(bigB) THEN Fail("GCD error", <<bigB.err>>)
    ELSE
  Bind(Mod(bigA, bigB), LAMBDA remainder :
    IF IsThrown(remainder) THEN Fail("GCD error", <<remainder.err>>)
    ELSE Bind(ToFixed(remainder), LAMBDA text : GcdLoop(strB, text)))))

gcd(a, b, c) ==
  Bind(Normalize(a), LAMBDA strA :
  Bind(Normalize(b), LAMBDA strB : Ret(GcdLoop(strA, strB), Configure(c))))

\* lcm once neither normalised operand is the text "0".
LcmOf(strA, strB, c1) ==
  Bind(gcd(strA, strB, c1).out, LAMBDA g :
    IF g.err # <<>> THEN Ret(Fail("LCM error", g.err), c1)
    ELSE
  Bind(Parse(strA), LAMBDA bigA :
    IF IsThrown(bigA) THEN Ret(Fail("LCM error", <<bigA.err>>), c1)
    ELSE
  Bind(Parse(strB), LAMBDA bigB :
    IF IsThrown(bigB) THEN Ret(Fail("LCM error", <<bigB.err>>), c1)
    ELSE
  Bind(ToFixed(Times(bigA, bigB)), LAMBDA text :
  Bind(Parse(text), LAMBDA product :
  Bind(Parse(g.val), LAMBDA bigG :
    IF IsThrown(bigG) THEN Ret(Fail("LCM error", <<bigG.err>>), c1)
    ELSE
  Bind(Div(product, bigG, c1.DP, c1.RM), LAMBDA q :
    IF IsThrown(q) THEN Ret(Fail("LCM error", <<q.err>>), c1)
    ELSE Ret(Ok(ToFixed(q)), c1))))))))

lcm(a, b, c) ==
  Bind(Normalize(a), LAMBDA strA :
  Bind(Normalize(b), LAMBDA strB :
    IF strA = <<"0">> \/ strB = <<"0">> THEN Ret(Ok(<<"0">>), Configure(c))
    ELSE Bind(Configure(c), LAMBDA c1 : LcmOf(strA, strB, c1))))

\* The number returned is held as its text.
compare(a, b, c) ==
  Bind(Configure(c), LAMBDA c1 :
  Bind(Parse(a), LAMBDA bigA :
    IF IsThrown(bigA) THEN Ret(Fail("Comparison error", <<bigA.err>>), c1)
    ELSE
  Bind(Parse(b), LAMBDA bigB :
    IF IsThrown(bigB) THEN Ret(Fail("Comparison error", <<bigB.err>>), c1)
    ELSE Ret(Ok(IntText(Cmp(bigA, bigB))), c1))))

round(value, decimalPlaces, c) ==
  Bind(Configure(c), LAMBDA c1 :
  Bind(Parse(value), LAMBDA bigValue :
    IF IsThrown(bigValue) THEN Ret(Fail("Rounding error", <<bigValue.err>>), c1)
    ELSE
  Bind(ToFixedDp(bigValue, decimalPlaces, c1.RM), LAMBDA r :
    IF r.err # "" THEN Ret(Fail("Rounding error", <<r.err>>), c1)
    ELSE Ret(Ok(r.txt), c1))))

abs(value, c) ==
  Bind(Configure(c), LAMBDA c1 :
  Bind(Parse(value), LAMBDA bigValue :
    IF IsThrown(bigValue) THEN Ret(Fail("Absolute value error", <<bigValue.err>>), c1)
    ELSE Bind(Abs(bigValue), LAMBDA result : Ret(Ok(Format(result, c1)), c1))))

mod(a, b, c) ==
  IF b = <<"0">> THEN Ret(Fail("Modulo error", <<"Modulo by zero">>), c)
  ELSE
  Bind(Configure(c), LAMBDA c1 :
  Bind(Parse(a), LAMBDA bigA :
    IF IsThrown(bigA) THEN Ret(Fail("Modulo error", <<bigA.err>>), c1)
    ELSE
  Bind(Parse(b), LAMBDA bigB :
    IF IsThrown(bigB) THEN Ret(Fail("Modulo error", <<bigB.err>>), c1)
    ELSE
  Bind(Mod(bigA, bigB), LAMBDA result :
    IF IsThrown(result) THEN Ret(Fail("Modulo error", <<result.err>>), c1)
    ELSE Ret(Ok(Format(result, c1)), c1)))))

(***************************************************************************)
(* The program as a state machine: a caller makes one call at a time; the  *)
(* precision context is the global state the calls share.                  *)
(***************************************************************************)
\* The defaults of big.js, before any call.
DefaultCtx == [DP |-> 20, RM |-> 1, PE |-> 21, NE |-> -7]
Ctx == [DP |-> BigDP, RM |-> BigRM, PE |-> BigPE, NE |-> BigNE]
SetCtx(c) == BigDP' = c.DP /\ BigRM' = c.RM /\ BigPE' = c.PE /\ BigNE' = c.NE
\* Settings a program may have made before it calls BigMath.
InitCtxs == {[DP |-> dp, RM |-> rm, PE |-> pe, NE |-> -7] :
               dp \in {0, 20}, rm \in 0..3, pe \in {1, 21}}

NoCall == [op |-> "", a |-> <<>>, b |-> <<>>, n |-> 0, dp0 |-> 0]
NoOut == Ok(<<>>)

Texts == TextsOver(Chars, MaxTextLen)
Numerals == TextsOver(NumChars, MaxLen)
CtxTexts == TextsOver(Chars, MaxCtxLen)
DPs == -1..MaxDP
SqrtDPs == -1..MaxSqrtDP
Exps == -MaxExp..MaxExp
Facts == -1..MaxFact

Idle(c) ==
  /\ BigDP = c.DP /\ BigRM = c.RM /\ BigPE = c.PE /\ BigNE = c.NE
  /\ pc = "idle" /\ call = NoCall /\ out = NoOut
  /\ x = BigZero /\ xPrev = BigZero /\ currentDP = 0

MkCall(op, a, b, n) == [op |-> op, a |-> a, b |-> b, n |-> n, dp0 |-> BigDP]

\* A call that runs from entry to exit in one step.
Do(op, a, b, n, r) ==
  /\ pc' = "done"
  /\ call' = MkCall(op, a, b, n)
  /\ out' = r.out
  /\ SetCtx(r.ctx)
  /\ UNCHANGED <<x, xPrev, currentDP>>

Add(T) ==
  /\ pc = "idle"
  /\ \E a, b \in T : \E r \in {add(a, b, Ctx)} : Do("add", a, b, 0, r)
Subtract(T) ==
  /\ pc = "idle"
  /\ \E a, b \in T : \E r \in {subtract(a, b, Ctx)} : Do("subtract", a, b, 0, r)
Multiply(T) ==
  /\ pc = "idle"
  /\ \E a, b \in T : \E r \in {multiply(a, b, Ctx)} : Do("multiply", a, b, 0, r)
Divide(T, D) ==
  /\ pc = "idle"
  /\ \E a, b \in T, d \in D : \E r \in {divide(a, b, d, Ctx)} : Do("divide", a, b, d, r)
ModCall(T) ==
  /\ pc = "idle"
  /\ \E a, b \in T : \E r \in {mod(a, b, Ctx)} : Do("mod", a, b, 0, r)
PowCall(T, E) ==
  /\ pc = "idle"
  /\ \E a \in T, e \in E : \E r \in {pow(a, e, Ctx)} : Do("pow", a, <<>>, e, r)
Factorial(N) ==
  /\ pc = "idle"
  /\ \E n \in N : \E r \in {factorial(n, Ctx)} : Do("factorial", <<>>, <<>>, n, r)
Gcd(T) ==
  /\ pc = "idle"
  /\ \E a, b \in T : \E r \in {gcd(a, b, Ctx)} : Do("gcd", a, b, 0, r)
Lcm(T) ==
  /\ pc = "idle"
  /\ \E a, b \in T : \E r \in {lcm(a, b, Ctx)} : Do("lcm", a, b, 0, r)
Compare(T) ==
  /\ pc = "idle"
  /\ \E a, b \in T : \E r \in {compare(a, b, Ctx)} : Do("compare", a, b, 0, r)
RoundCall(T, D) ==
  /\ pc = "idle"
  /\ \E a \in T, d \in D : \E r \in {round(a, d, Ctx)} : Do("round", a, <<>>, d, r)
AbsCall(T) ==
  /\ pc = "idle"
  /\ \E a \in T : \E r \in {abs(a, Ctx)} : Do("abs", a, <<>>, 0, r)

\* sqrt runs its loop one iteration per step.  Entry: the checks, configure,
\* the precision saved and overridden, x = value, xPrev = 0.
SqrtCall(T, D) ==
  /\ pc = "idle"
  /\ \E a \in T, d \in D : \E en \in {SqrtEnter(a, d, Ctx)} :
       /\ pc' = en.to
       /\ call' = MkCall("sqrt", a, <<>>, d)
       /\ SetCtx(en.ret.ctx)
       /\ IF en.to = "loop"
          THEN /\ out' = NoOut
               /\ x' = Parse(a)
               /\ xPrev' = BigZero
               /\ currentDP' = Configure(Ctx).DP
          ELSE /\ out' = en.ret.out
               /\ UNCHANGED <<x, xPrev, currentDP>>

\* One pass of the loop body; an error thrown in it ends the call.
SqrtIter ==
  /\ pc = "loop"
  /\ SqrtContinues(x, xPrev, call.n, Ctx)
  /\ \E bigValue \in {Parse(call.a)} : \E x2 \in {SqrtNext(bigValue, x, Ctx)} :
       IF IsThrown(x2)
       THEN /\ pc' = "done"
            /\ out' = Fail("Square root error", <<x2.err>>)
            /\ UNCHANGED <<x, xPrev>>
       ELSE /\ pc' = "loop"
            /\ xPrev' = x
            /\ x' = x2
            /\ UNCHANGED out
  /\ UNCHANGED <<BigDP, BigRM, BigPE, BigNE, call, currentDP>>

\* The loop condition fails: format, restore the precision, return.
SqrtExit ==
  /\ pc = "loop"
  /\ ~SqrtContinues(x, xPrev, call.n, Ctx)
  /\ \E r \in {SqrtLeave(x, call.n, currentDP, Ctx)} :
       /\ out' = r.out
       /\ SetCtx(r.ctx)
  /\ pc' = "done"
  /\ UNCHANGED <<call, x, xPrev, currentDP>>

\* The caller takes the outcome; the context stays as the call left it.
Return ==
  /\ pc = "done"
  /\ pc' = "idle"
  /\ call' = NoCall
  /\ out' = NoOut
  /\ x' = BigZero /\ xPrev' = BigZero /\ currentDP' = 0
  /\ UNCHANGED <<BigDP, BigRM, BigPE, BigNE>>

Init == Idle(DefaultCtx)
InitCtx == \E c \in InitCtxs : Idle(c)

\* One call of any operator, from the defaults of big.js.
Next ==
  \/ Add(Texts) \/ Subtract(Texts) \/ Multiply(Texts) \/ Divide(Texts, DPs)
  \/ ModCall(Texts) \/ PowCall(Texts, Exps) \/ Factorial(Facts)
  \/ Gcd(Texts) \/ Lcm(Texts) \/ Compare(Texts)
  \/ RoundCall(Texts, DPs) \/ AbsCall(Texts)
  \/ SqrtCall(Texts, SqrtDPs) \/ SqrtIter \/ SqrtExit
Spec == Init /\ [][Next]_vars

\* One call of divide on numerals.
NextDivide == Divide(Numerals, 0..MaxDP)
SpecDivide == Init /\ [][NextDivide]_vars

\* One call of sqrt on numerals.  A call, once made, runs on: JavaScript
\* runs the loop to completion, so neither loop step waits for ever.
NextSqrt == SqrtCall(Numerals, 0..MaxSqrtDP) \/ SqrtIter \/ SqrtExit
SpecSqrt == Init /\ [][NextSqrt]_vars /\ WF_vars(SqrtIter) /\ WF_vars(SqrtExit)

\* One call of pow on numerals.
NextPow == PowCall(Numerals, Exps)
SpecPow == Init /\ [][NextPow]_vars

\* Calls one after another, from any setting of the context.
NextCtx ==
  \/ Add(CtxTexts) \/ Subtract(CtxTexts) \/ Multiply(CtxTexts) \/ Divide(CtxTexts, DPs)
  \/ ModCall(CtxTexts) \/ PowCall(CtxTexts, Exps) \/ Factorial(Facts)
  \/ Gcd(CtxTexts) \/ Lcm(CtxTexts) \/ Compare(CtxTexts)
  \/ RoundCall(CtxTexts, DPs) \/ AbsCall(CtxTexts)
  \/ SqrtCall(CtxTexts, SqrtDPs) \/ SqrtIter \/ SqrtExit
  \/ Return
SpecCtx == InitCtx /\ [][NextCtx]_vars

(***************************************************************************)
(* What a text denotes, read off the text itself: a valid numeral is an    *)
(* optional sign and digits with at most one decimal point; its value is   *)
(* Sgn * Magnitude / 10^FracLen.                                           *)
(***************************************************************************)
IsDigitChar(ch) == ch \in Digits
Unsigned(t) == IF Len(t) > 0 /\ t[1] = "-" THEN SubSeq(t, 2, Len(t)) ELSE t
ValidNumeral(t) ==
  /\ \A i \in 1..Len(Unsigned(t)) : Unsigned(t)[i] \in Digits \cup {"."}
  /\ Cardinality({i \in 1..Len(Unsigned(t)) : Unsigned(t)[i] = "."}) <= 1
  /\ \E i \in 1..Len(Unsigned(t)) : Unsigned(t)[i] \in Digits
RECURSIVE TextNat(_)
TextNat(t) ==
  IF t = <<>> THEN 0
  ELSE 10 * TextNat(SubSeq(t, 1, Len(t) - 1)) + DigitOf(t[Len(t)])
Magnitude(t) == TextNat(SelectSeq(t, IsDigitChar))
FracLen(t) == IF \E i \in 1..Len(t) : t[i] = "." THEN Len(t) - IndexOf(t, ".") ELSE 0
Negative(t) == Len(t) > 0 /\ t[1] = "-"
\* A text of digits only, at least one: an integer written out.
IsIntegerText(t) == Len(t) > 0 /\ \A i \in 1..Len(t) : t[i] \in Digits
\* n written with at least w digits.
PadNat(n, w) == DigitsText(Zeros(w - Len(NatDigits(n)))) \o DigitsText(NatDigits(n))
\* q / 10^d written with exactly d fractional digits, "-" before it when neg.
FixedText(neg, q, d) ==
  (IF neg THEN <<"-">> ELSE <<>>)
    \o DigitsText(NatDigits(q \div Pow10(d)))
    \o (IF d > 0 THEN <<".">> \o PadNat(q % Pow10(d), d) ELSE <<>>)
GcdNat(m, n) ==
  IF m = 0 /\ n = 0 THEN 0
  ELSE CHOOSE g \in 1..Max(m, n) :
         /\ m % g = 0 /\ n % g = 0
         /\ \A h \in (g + 1)..Max(m, n) : ~(m % h = 0 /\ n % h = 0)

Returned == pc = "done"
Succeeded == Returned /\ out.err = <<>>
TwoOperandOps == {"add", "subtract", "multiply", "divide", "mod", "gcd", "lcm", "compare"}
OneOperandOps == {"pow", "sqrt", "round", "abs"}

(***************************************************************************)
(* C1                                                                      *)
(***************************************************************************)
\* C1: for a valid dividend and a divisor whose value is zero, in whatever
\* form it is written, divide (with d >= 0) fails with a division by zero
\* and mod fails with the message 'Modulo by zero'.  For divide the message
\* of big.js is taken to be of the division by zero kind too.
C1_ZeroDivisorFailsByKind ==
  (/\ Returned
   /\ call.op \in {"divide", "mod"}
   /\ ValidNumeral(call.a) /\ ValidNumeral(call.b) /\ Magnitude(call.b) = 0
   /\ call.n >= 0)
  => IF call.op = "divide"
     THEN out.err \in {<<"Division error", "Division by zero">>,
                       <<"Division error", DIV_BY_ZERO>>}
     ELSE out.err = <<"Modulo error", "Modulo by zero">>

(***************************************************************************)
(* C2                                                                      *)
(***************************************************************************)
\* C2: a call of any operator with an operand that is not a valid numeral
\* fails; it never returns a result.
C2_InvalidOperandFails ==
  (/\ Returned
   /\ \/ call.op \in TwoOperandOps /\ (~ValidNumeral(call.a) \/ ~ValidNumeral(call.b))
      \/ call.op \in OneOperandOps /\ ~ValidNumeral(call.a))
  => out.err # <<>>

(***************************************************************************)
(* C3                                                                      *)
(***************************************************************************)
\* C3: for valid a, b of non-zero value and d >= 0, divide(a, b, d) returns
\* the quotient rounded half away from zero to d fractional digits, written
\* with exactly d digits after the point and no point when d = 0.  With
\* a = sa * A / 10^fa and b = sb * B / 10^fb the rounded magnitude, in units
\* of 10^-d, is floor((2 * A * 10^fb * 10^d + B * 10^fa) / (2 * B * 10^fa)).
C3_Quotient ==
  Bind(Magnitude(call.a) * Pow10(FracLen(call.b)), LAMBDA N :
  Bind(Magnitude(call.b) * Pow10(FracLen(call.a)), LAMBDA D :
  Bind((2 * N * Pow10(call.n) + D) \div (2 * D), LAMBDA Q :
    FixedText(Q # 0 /\ Negative(call.a) # Negative(call.b), Q, call.n))))
SqrtOfPositive ==
  /\ Returned /\ call.op = "sqrt"
  /\ ValidNumeral(call.a) /\ ~Negative(call.a) /\ Magnitude(call.a) > 0
  /\ call.n >= 0

\* C4 as stated: for positive x = N / 10^f and d >= 0 the result r = R / 10^d
\* of sqrt(x, d) has |r * r - x| < 10^-d, that is
\* |R * R * 10^f - N * 10^(2d)| < 10^(d + f).
C4_SquareWithinTolerance ==
  SqrtOfPositive =>
    /\ Succeeded /\ FracLen(out.val) = call.n
    /\ AbsInt(Magnitude(out.val) * Magnitude(out.val) * Pow10(FracLen(call.a))
              - Magnitude(call.a) * Pow10(2 * call.n))
         < Pow10(call.n + FracLen(call.a))

\* R / 10^d is less than 2 * 10^-d away from the square root of N / 10^f.
C4_NearRoot(R, N, f, d) ==
  /\ R <= 2 \/ (R - 2) * (R - 2) * Pow10(f) < N * Pow10(2 * d)
  /\ N * Pow10(2 * d) < (R + 2) * (R + 2) * Pow10(f)

\* C4, amended: for positive x and d >= 0, sqrt(x, d) returns a text r of
\* exactly d fractional digits; when x > 10^-d, |r - sqrt(x)| < 2 * 10^-d;
\* when x <= 10^-d the loop body never runs and r is x itself rounded half
\* up to d fractional digits.
C4_RootWithinTwoUnits ==
  SqrtOfPositive =>
    /\ Succeeded /\ FracLen(out.val) = call.n /\ ~Negative(out.val)
    /\ IF Magnitude(call.a) * Pow10(call.n) > Pow10(FracLen(call.a))
       THEN C4_NearRoot(Magnitude(out.val), Magnitude(call.a), FracLen(call.a), call.n)
       ELSE out.val = FixedText(FALSE,
                        (2 * Magnitude(call.a) * Pow10(call.n) + Pow10(FracLen(call.a)))
                          \div (2 * Pow10(FracLen(call.a))), call.n)
\* sqrt("2", 0): one pass of the loop, 1.5, returned as "2".
C4_Witness ==
  /\ Returned /\ call.op = "sqrt" /\ call.a = <<"2">> /\ call.n = 0
  /\ xPrev = Parse(<<"2">>) /\ out = Ok(<<"2">>)

(***************************************************************************)
(* C5                                                                      *)
(***************************************************************************)
PowNegative ==
  /\ Returned /\ call.op = "pow"
  /\ ValidNumeral(call.a) /\ Magnitude(call.a) # 0
  /\ call.n < 0

RECURSIVE IntPow(_, _)
IntPow(m, k) == IF k = 0 THEN 1 ELSE m * IntPow(m, k - 1)

\* C5 as stated: for a non-zero base and a negative exponent the result is
\* the reciprocal of base^(-exponent) at 0 decimal places, a whole number.
\* The reciprocal of M / 10^F rounded to a whole number is
\* floor((2 * 10^F + M) / (2 * M)).
C5_ReciprocalIsWholeNumber ==
  PowNegative =>
    out = Ok(Bind(IntPow(Magnitude(call.a), -call.n), LAMBDA M :
             Bind(Pow10(FracLen(call.a) * (-call.n)), LAMBDA T :
             Bind((2 * T + M) \div (2 * M), LAMBDA Q :
               FixedText(Q # 0 /\ Negative(call.a) /\ (-call.n) % 2 = 1, Q, 0)))))

\* The digit of the unsigned text V at the power of ten p; di is the place
\* of the point in V, 0 when there is none.
PosDigit(V, di, p) ==
  IF p >= 0
  THEN IF p < (IF di = 0 THEN Len(V) ELSE di - 1)
       THEN DigitOf(V[(IF di = 0 THEN Len(V) ELSE di - 1) - p]) ELSE 0
  ELSE IF di # 0 /\ di - p <= Len(V) THEN DigitOf(V[di - p]) ELSE 0

\* (10^F - V * M) in units of 10^p, taken digit by digit from the highest
\* power down: r becomes 10 * r + (digit of 10^F) - (digit of V) * M.  Once
\* r leaves -M..M it can never come back, and is left as it is.
RECURSIVE RecipBlock(_, _, _, _, _, _, _)
RecipBlock(r, p, k, F, V, di, M) ==
  IF k = 0 \/ r > M \/ r < -M THEN r
  ELSE RecipBlock(10 * r + (IF p = F THEN 1 ELSE 0) - PosDigit(V, di, p) * M,
                  p - 1, k - 1, F, V, di, M)
RECURSIVE RecipRem(_, _, _, _, _, _, _)
RecipRem(r, p, n, F, V, di, M) ==
  IF n <= 0 \/ r > M \/ r < -M THEN r
  ELSE RecipRem(RecipBlock(r, p, Min(n, 32), F, V, di, M), p - 32, n - 32, F, V, di, M)

\* V is 1 / (M / 10^F) rounded half up at the ConfigDP-th decimal place:
\* -M <= 2 * (10^F - V * M) * 10^ConfigDP < M.
IsReciprocal(V, M, F) ==
  Bind(IndexOf(V, "."), LAMBDA di :
  Bind(Max(F, (IF di = 0 THEN Len(V) ELSE di - 1) - 1), LAMBDA H :
  Bind(RecipRem(0, H, H + ConfigDP + 1, F, V, di, M), LAMBDA r :
    -M <= 2 * r /\ 2 * r < M)))

\* Plain notation without needless zeros: digits, at most one point with
\* digits on both sides of it, no zero at the end of the fraction, no zero
\* at the head of an integer part of more than one digit.
PlainTrimmed(V) ==
  /\ ValidNumeral(V) /\ ~Negative(V)
  /\ V[1] # "." /\ V[Len(V)] # "."
  /\ FracLen(V) > 0 => V[Len(V)] # "0"
  /\ (Len(V) > 1 /\ V[2] # ".") => V[1] # "0"

\* C5, amended: for a non-zero base and a negative exponent, pow returns the
\* reciprocal of base^(-exponent) rounded half up to 1000 decimal places,
\* in plain notation without trailing zeros, with the sign of the power
\* unless it is rounded to zero.
C5_ReciprocalAtConfiguredPrecision ==
  PowNegative =>
    /\ Succeeded
    /\ Negative(out.val) = (/\ Negative(call.a) /\ (-call.n) % 2 = 1
                            /\ \E i \in 1..Len(out.val) : out.val[i] \in Digits \ {"0"})
    /\ PlainTrimmed(Unsigned(out.val))
    /\ FracLen(out.val) <= ConfigDP
    /\ IsReciprocal(Unsigned(out.val), IntPow(Magnitude(call.a), -call.n),
                    FracLen(call.a) * (-call.n))
\* pow("3", -1): "0." and a thousand digits.
C5_Witness ==
  /\ Returned /\ call.op = "pow" /\ call.a = <<"3">> /\ call.n = -1
  /\ Succeeded /\ Len(out.val) = ConfigDP + 2 /\ out.val[ConfigDP + 2] = "3"

(***************************************************************************)
(* C6, C7                                                                  *)
(***************************************************************************)
\* The operand as gcd and lcm take it: without its sign, up to the point.
IntegerPart(t) ==
  IF \E i \in 1..Len(Unsigned(t)) : Unsigned(t)[i] = "."
  THEN SubSeq(Unsigned(t), 1, IndexOf(Unsigned(t), ".") - 1)
  ELSE Unsigned(t)
IntegerOperands ==
  /\ ValidNumeral(call.a) /\ ValidNumeral(call.b)
  /\ IsIntegerText(IntegerPart(call.a)) /\ IsIntegerText(IntegerPart(call.b))

\* C6: with A and B the operands without sign and fraction, gcd(a, b)
\* returns the greatest common divisor of A and B (A when B is zero, B when
\* A is zero, zero when both are).
C6_GcdIsGreatestCommonDivisor ==
  (Returned /\ call.op = "gcd" /\ IntegerOperands)
  => /\ Succeeded /\ IsIntegerText(out.val)
     /\ TextNat(out.val) = GcdNat(TextNat(IntegerPart(call.a)), TextNat(IntegerPart(call.b)))

\* C7: with A and B as for gcd, lcm(a, b) is "0" when A or B is zero, and
\* otherwise an integer with lcm(a, b) * gcd(A, B) = A * B.
C7_LcmTimesGcdIsProduct ==
  (Returned /\ call.op = "lcm" /\ IntegerOperands)
  => IF TextNat(IntegerPart(call.a)) = 0 \/ TextNat(IntegerPart(call.b)) = 0
     THEN out = Ok(<<"0">>)
     ELSE /\ Succeeded /\ IsIntegerText(out.val)
          /\ TextNat(out.val)
               * GcdNat(TextNat(IntegerPart(call.a)), TextNat(IntegerPart(call.b)))
             = TextNat(IntegerPart(call.a)) * TextNat(IntegerPart(call.b))

(***************************************************************************)
(* C8                                                                      *)
(***************************************************************************)
\* C8: when a call of divide or sqrt has ended, by return or by error,
\* Big.DP is what it was when the call was made.
C8_PrecisionRestored ==
  (Returned /\ call.op \in {"divide", "sqrt"}) => BigDP = call.dp0

(***************************************************************************)
(* C9                                                                      *)
(***************************************************************************)
\* C9: the loop of sqrt, once entered (positive value, d >= 0), is left
\* after finitely many iterations: the call ends.
C9_SqrtLoopTerminates == (pc = "loop") ~> (pc = "done")
\* A call that ended after two passes of the loop or more.
C9_Witness ==
  /\ Returned /\ call.op = "sqrt" /\ Succeeded /\ call.n >= 0
  /\ xPrev # BigZero /\ xPrev # Parse(call.a)

(***************************************************************************)
(* C10                                                                     *)
(***************************************************************************)
\* The outcome of the call made, worked out in the context of the defaults.
OutcomeFromDefaults ==
  CASE call.op = "add" -> add(call.a, call.b, DefaultCtx).out
    [] call.op = "subtract" -> subtract(call.a, call.b, DefaultCtx).out
    [] call.op = "multiply" -> multiply(call.a, call.b, DefaultCtx).out
    [] call.op = "divide" -> divide(call.a, call.b, call.n, DefaultCtx).out
    [] call.op = "mod" -> mod(call.a, call.b, DefaultCtx).out
    [] call.op = "pow" -> pow(call.a, call.n, DefaultCtx).out
    [] call.op = "sqrt" -> sqrt(call.a, call.n, DefaultCtx).out
    [] call.op = "factorial" -> factorial(call.n, DefaultCtx).out
    [] call.op = "gcd" -> gcd(call.a, call.b, DefaultCtx).out
    [] call.op = "lcm" -> lcm(call.a, call.b, DefaultCtx).out
    [] call.op = "compare" -> compare(call.a, call.b, DefaultCtx).out
    [] call.op = "round" -> round(call.a, call.n, DefaultCtx).out
    [] call.op = "abs" -> abs(call.a, DefaultCtx).out

\* C10: the outcome of a call, result or error, depends on its arguments
\* only: whatever the context was set to before and whatever earlier calls
\* left in it, the outcome is the one the call has from the defaults.
C10_OutcomeFromArgumentsOnly == Returned => out = OutcomeFromDefaults
\* A divide that returns a result although an earlier divide, failing on
\* its decimal places, left Big.DP at -1.
C10_Witness ==
  /\ Returned /\ call.op = "divide" /\ call.dp0 = -1
  /\ call.a = <<"1">> /\ call.b = <<"2">> /\ call.n = 0 /\ out = Ok(<<"1">>)

====
